---- MODULE Spec2Model ----
(***************************************************************************)
(* A model of libsdd's operation cache (sdd/mem/cache.hh): a bounded hash  *)
(* map from operations to results with an LFU cleanup, per-round           *)
(* statistics, a filter chain, and re-entrant lookups (the evaluation of   *)
(* an operation looks sub-operations up in the same cache, as the          *)
(* homomorphism evaluation does through its context); and of the Fixpoint  *)
(* and Sum homomorphisms (sdd/hom/fixpoint.hh, sdd/hom/sum.hh): their      *)
(* smart constructors and their evaluation.                                *)
(***************************************************************************)
EXTENDS Integers, Sequences, FiniteSets, TLC

(***************************************************************************)
(* Bounds of the model.                                                    *)
(***************************************************************************)
\* The operations are 1..NumOps.
NumOps == 5
\* The `size' argument given to the constructor of the cache.
CacheSize == 3
\* Calls of the cache made in one behaviour: lookups (top-level and nested)
\* and the user's calls of cleanup() and clear().
MaxCalls == 5
\* Lookups made in one behaviour of the sequential use of the cache.
MaxSeqCalls == 7
\* std::size_t and unsigned int are modelled SizeBits and UIntBits wide.
SizeBits == 12
UIntBits == 8

VARIABLES
  set_,      \* cache::set_: the stored cache_entry records
  stats_,    \* cache::stats_.rounds: the rounds, newest first (front = stats_[1])
  stack,     \* the lookups whose op() is being evaluated, outermost first
  exc,       \* the EvaluationError being propagated, with its steps
  last,      \* what the most recently finished lookup gave to its caller
  succ,      \* per round (newest first): the lookups counted there that returned
  calls,     \* number of calls of the cache made so far
  raised_under \* the operations of the lookups that were active (outermost
             \* first) when the error propagating or last delivered was raised

VARIABLES
  ctor_call, \* the call of a smart constructor: which one, and its argument
  ctor_made  \* the homomorphism that the call returned

VARIABLES
  ev_hom,    \* the homomorphism being evaluated: a fixpoint or a sum node
  ev_x,      \* the SDD it is evaluated on
  ev_pc,     \* the position reached in its operator()
  x1, x2,    \* fixpoint::operator(): the locals x1 and x2
  ev_applied, \* fixpoint::operator(): evaluations of h_ made so far
  ev_pending, \* sum::operator(): the operands yet to evaluate, in storage order
  sum_operands, \* sum::operator(): the results added to the sum_builder
  ev_res,    \* what the evaluation returned
  ev_first,  \* the operand and the result of the evaluation before this one,
             \* when the homomorphism is evaluated again on its own result
  ev_error   \* the evaluation_error that left the evaluation, if one did

VARIABLES
  nodes,     \* the nodes of the orders made so far; a pointer to a node is its
             \* position in this sequence, 0 is nullptr
  order_ptr_, \* order::order_ptr_ of each order object
  looked_up  \* what the last call of identifier_variable gave to its caller

cacheVars == <<set_, stats_, stack, exc, last, succ, calls, raised_under>>
builderVars == <<ctor_call, ctor_made>>
evalVars == <<ev_hom, ev_x, ev_pc, x1, x2, ev_applied, ev_pending, sum_operands, ev_res, ev_first, ev_error>>
orderVars == <<nodes, order_ptr_, looked_up>>
homVars == <<builderVars, evalVars, orderVars>>
vars == <<cacheVars, builderVars, evalVars, orderVars>>

Operations == 1..NumOps

SizeModulus == 2 ^ SizeBits
UIntModulus == 2 ^ UIntBits

(***************************************************************************)
(* The environment of the cache: operations, their results, their filters. *)
(***************************************************************************)
\* Operation::operator(): the result is a function of the operation alone.
\* Distinct operations may have the same result.
Result(op) == op % 2

\* The operations that the evaluation of op looks up in the same cache:
\* sub-operations only, so that the recursion is well-founded.
SubOperations(op) == {o \in Operations : o > op}

\* The filters of the chain, in the order of the template parameter pack.
Filter1(op) == op % 4 # 0
Filter2(op) == op % 6 # 0
Filters == <<[op \in Operations |-> Filter1(op)], [op \in Operations |-> Filter2(op)]>>

\* A chain that accepts as soon as one filter accepts.
RECURSIVE apply_filters_any(_, _)
apply_filters_any(op, fs) ==
  IF fs = <<>> THEN FALSE
  ELSE IF Head(fs)[op] THEN TRUE ELSE apply_filters_any(op, Tail(fs))

\* apply_filters<T, Filter, Filters...>: true for the empty chain, otherwise
\* the first filter decides whether the rest of the chain is consulted.
RECURSIVE apply_filters(_, _)
apply_filters(op, fs) ==
  IF fs = <<>> THEN TRUE
  ELSE IF Head(fs)[op] THEN apply_filters(op, Tail(fs)) ELSE FALSE

Cacheable(op) == apply_filters(op, Filters)

(***************************************************************************)
(* cache_statistics                                                        *)
(***************************************************************************)
\* cache_statistics::round::round()
round == [hits |-> 0, misses |-> 0, filtered |-> 0]

\* cache_statistics::size(): the number of rounds.
size(rounds) == Len(rounds)

\* cache_statistics::cleanups()
cleanups(rounds) == size(rounds) - 1

RECURSIVE total(_)
\* cache_statistics::total(): accumulate over the rounds, from round().
total(rounds) ==
  IF rounds = <<>> THEN round
  ELSE LET acc == total(Tail(rounds))
           r == Head(rounds)
       IN [hits |-> (acc.hits + r.hits) % SizeModulus,
           misses |-> (acc.misses + r.misses) % SizeModulus,
           filtered |-> (acc.filtered + r.filtered) % SizeModulus]

\* ++stats_.rounds.front().<counter> and --stats_.rounds.front().<counter>,
\* on std::size_t.
Counter(kind) == IF kind = "hit" THEN "hits"
                 ELSE IF kind = "miss" THEN "misses" ELSE "filtered"

IncrFront(rounds, kind) ==
  [rounds EXCEPT ![1] =
     [@ EXCEPT ![Counter(kind)] = (@ + 1) % SizeModulus]]

DecrFront(rounds, kind) ==
  [rounds EXCEPT ![1] =
     [@ EXCEPT ![Counter(kind)] = (@ - 1) % SizeModulus]]

\* A round added at the other end of the list.
emplace_back(rounds) == rounds \o <<round>>

\* stats_.rounds.emplace_front(cache_statistics::round())
EmplaceFront(rounds) == <<round>> \o rounds

(***************************************************************************)
(* cache                                                                   *)
(***************************************************************************)
\* set_type::suggested_upper_bucket_count(n): the smallest bucket count of
\* Boost.Intrusive's list of primes that is not below n.
suggested_upper_bucket_count(n) ==
  IF n <= 3 THEN 3 ELSE IF n <= 7 THEN 7 ELSE IF n <= 11 THEN 11 ELSE 17

\* cache::max_size_, set by the constructor.
max_size_ == suggested_upper_bucket_count(CacheSize)

\* cache::cache_entry::cache_entry(op, result): nb_hits_ starts at 0.
cache_entry(op, res) == [operation |-> op, result |-> res, nb_hits |-> 0]

\* A lookup that takes equal hashes (here op % 3) for equal operations.
insert_check_by_hash(entries, op) == {e \in entries : e.operation % 3 = op % 3}

\* set_->insert_check(op, ...): the entries whose operation equals op.
insert_check(entries, op) == {e \in entries : e.operation = op}

\* set_->insert_commit(*entry, commit_data).
insert_commit(entries, entry) == entries \cup {entry}

\* A hit that leaves nb_hits_ as it is.
hit_entry_uncounted(entries, e) == entries

\* A hit that stores the counted entry beside the one it found.
hit_entry_duplicating(entries, e) ==
  entries \cup {[e EXCEPT !.nb_hits = (@ + 1) % UIntModulus]}

\* ++insertion.first->nb_hits_, on unsigned int.
hit_entry(entries, e) ==
  (entries \ {e}) \cup {[e EXCEPT !.nb_hits = (@ + 1) % UIntModulus]}

\* cache::size()
cache_size(entries) == Cardinality(entries)

\* A cut that rounds the half up.
cut_size_rounded_up(n) == (n + 1) \div 2

\* cleanup(): const std::size_t cut_size = vec.size() / 2.
cut_size(n) == n \div 2

\* nth_element with the comparison reversed: the most hit entries first.
nth_element_most_hit(entries, cut) ==
  {R \in SUBSET entries :
     /\ Cardinality(R) = cut
     /\ \A r \in R : \A s \in entries \ R : r.nb_hits >= s.nb_hits}

\* What std::nth_element may leave in [begin, begin + cut_size): any cut_size
\* entries none of which has more hits than an entry outside (ties are broken
\* by the implementation).
nth_element(entries, cut) ==
  {R \in SUBSET entries :
     /\ Cardinality(R) = cut
     /\ \A r \in R : \A s \in entries \ R : r.nb_hits <= s.nb_hits}

\* cache::cleanup(): the pairs <<entries, rounds>> it may leave.
cleanup(entries, rounds) ==
  {<<entries \ R, EmplaceFront(rounds)>> :
     R \in nth_element(entries, cut_size(cache_size(entries)))}

\* A clear() that disposes of nothing.
clear_nothing(entries) == entries

\* cache::clear()
clear(entries) == {}

(***************************************************************************)
(* Observation of the calls: what a caller sees, and what was counted.     *)
(***************************************************************************)
NoError == [raised |-> FALSE, steps |-> <<>>]

Returned(op, kind, res) ==
  [op |-> op, kind |-> kind, status |-> "returned", result |-> res, steps |-> <<>>]

Threw(op, kind, steps) ==
  [op |-> op, kind |-> kind, status |-> "threw", result |-> -1, steps |-> steps]

\* The number (1 = oldest) of the newest round.
CurrentRound == Len(stats_)

\* succ with one more returned lookup of `kind' counted in round number n.
Count(s, n, kind) ==
  [s EXCEPT ![Len(s) - n + 1] = [@ EXCEPT ![Counter(kind)] = @ + 1]]

\* A lookup can be issued by the user when no lookup is active, and by the
\* evaluation of the innermost active operation for one of its sub-operations.
CanLookup(op) ==
  /\ exc = NoError
  /\ calls < MaxCalls
  /\ stack # <<>> => op \in SubOperations(stack[Len(stack)].op)

Frame(op, kind) == [op |-> op, kind |-> kind, round |-> CurrentRound]

\* No smart constructor has been called, no homomorphism is being evaluated.
NoHom == [type |-> "none"]
NoCall == [ctor |-> "none", h |-> NoHom, operands |-> <<>>]

BuilderIdle ==
  /\ ctor_call = NoCall
  /\ ctor_made = NoHom

EvalIdle ==
  /\ ev_hom = NoHom
  /\ ev_x = {}
  /\ ev_pc = "idle"
  /\ x1 = {}
  /\ x2 = {}
  /\ ev_applied = 0
  /\ ev_pending = <<>>
  /\ sum_operands = <<>>
  /\ ev_res = {}
  /\ ev_first = <<>>
  /\ ev_error = <<>>

\* The order objects of the user.
Handles == {"o", "copy", "parent"}

\* A looked_up before any call of identifier_variable.
NotLookedUp == [handle |-> "none", id |-> 0, status |-> "none", variable |-> 0]

\* No order has been built.
OrderIdle ==
  /\ nodes = <<>>
  /\ order_ptr_ = [h \in Handles |-> 0]
  /\ looked_up = NotLookedUp

\* No lookup has been made; the cache is used on its own.
CacheIdle ==
  /\ set_ = {}
  /\ stats_ = <<round>>
  /\ stack = <<>>
  /\ exc = NoError
  /\ last = [op |-> 0, kind |-> "none", status |-> "none", result |-> -1, steps |-> <<>>]
  /\ succ = <<round>>
  /\ calls = 0
  /\ raised_under = <<>>

Init ==
  /\ CacheIdle
  /\ BuilderIdle
  /\ EvalIdle
  /\ OrderIdle

\* operator()(op), the operation is rejected by the filters: count it and
\* evaluate it.
LookupFiltered(op) ==
  /\ ~Cacheable(op)
  /\ stats_' = IncrFront(stats_, "filtered")
  /\ stack' = Append(stack, Frame(op, "filtered"))
  /\ calls' = calls + 1
  /\ UNCHANGED <<set_, exc, last, succ, raised_under, homVars>>

\* operator()(op), op has already been computed.
LookupHit(op) ==
  /\ Cacheable(op)
  /\ \E e \in insert_check(set_, op) :
       /\ stats_' = IncrFront(stats_, "hit")
       /\ set_' = hit_entry(set_, e)
       /\ last' = Returned(op, "hit", e.result)
  /\ succ' = Count(succ, CurrentRound, "hit")
  /\ calls' = calls + 1
  /\ raised_under' = <<>>
  /\ UNCHANGED <<stack, exc, homVars>>

\* A miss that makes room first and counts itself afterwards, in the round
\* that the cleanup opened.
LookupMissCountedAfterCleanup(op) ==
  /\ Cacheable(op)
  /\ insert_check(set_, op) = {}
  /\ IF cache_size(set_) >= max_size_
     THEN /\ \E c \in cleanup(set_, stats_) :
               /\ set_' = c[1]
               /\ stats_' = IncrFront(c[2], "miss")
          /\ succ' = EmplaceFront(succ)
     ELSE /\ set_' = set_
          /\ stats_' = IncrFront(stats_, "miss")
          /\ succ' = succ
  /\ stack' = Append(stack, [Frame(op, "miss") EXCEPT !.round = Len(stats_')])
  /\ calls' = calls + 1
  /\ UNCHANGED <<exc, last, raised_under, homVars>>

\* operator()(op), op is not in the cache: count the miss, make room if the
\* cache is full, and evaluate op.
LookupMiss(op) ==
  /\ Cacheable(op)
  /\ insert_check(set_, op) = {}
  /\ LET counted == IncrFront(stats_, "miss")
     IN IF cache_size(set_) >= max_size_
        THEN /\ \E c \in cleanup(set_, counted) :
                  /\ set_' = c[1]
                  /\ stats_' = c[2]
             /\ succ' = EmplaceFront(succ)
        ELSE /\ set_' = set_
             /\ stats_' = counted
             /\ succ' = succ
  /\ stack' = Append(stack, Frame(op, "miss"))
  /\ calls' = calls + 1
  /\ UNCHANGED <<exc, last, raised_under, homVars>>

\* cache::operator()(op), up to the point where op() is entered.
Lookup(op) ==
  /\ CanLookup(op)
  /\ \/ LookupFiltered(op)
     \/ LookupHit(op)
     \/ LookupMiss(op)

\* op() of the innermost active lookup returns: a miss stores the entry.
EvalReturn ==
  /\ exc = NoError
  /\ stack # <<>>
  /\ LET f == stack[Len(stack)]
         res == Result(f.op)
     IN /\ set_' = IF f.kind = "miss"
                   THEN insert_commit(set_, cache_entry(f.op, res))
                   ELSE set_
        /\ last' = Returned(f.op, f.kind, res)
        /\ succ' = Count(succ, f.round, f.kind)
  /\ stack' = SubSeq(stack, 1, Len(stack) - 1)
  /\ raised_under' = <<>>
  /\ UNCHANGED <<stats_, exc, calls, homVars>>

\* The step recorded ahead of the steps that inner lookups recorded.
add_step_front(e, op) == <<op>> \o e.steps

\* e.add_step(op): the steps of e, then op.
add_step(e, op) == Append(e.steps, op)

\* A catch that commits an entry for the operation that failed.
CatchInserting(e) ==
  /\ stack # <<>>
  /\ LET f == stack[Len(stack)]
         steps == add_step(e, f.op)
     IN /\ stats_' = DecrFront(stats_, f.kind)
        /\ set_' = insert_commit(set_, cache_entry(f.op, Result(f.op)))
        /\ IF Len(stack) = 1
           THEN /\ exc' = NoError
                /\ last' = Threw(f.op, f.kind, steps)
           ELSE /\ exc' = [raised |-> TRUE, steps |-> steps]
                /\ last' = last
  /\ stack' = SubSeq(stack, 1, Len(stack) - 1)
  /\ UNCHANGED <<succ, calls, homVars>>

\* catch (EvaluationError& e) of the innermost active lookup: decrement the
\* counter of the front round, add the step, rethrow.
Catch(e) ==
  /\ stack # <<>>
  /\ LET f == stack[Len(stack)]
         steps == add_step(e, f.op)
     IN /\ stats_' = DecrFront(stats_, f.kind)
        /\ IF Len(stack) = 1
           THEN /\ exc' = NoError
                /\ last' = Threw(f.op, f.kind, steps)
           ELSE /\ exc' = [raised |-> TRUE, steps |-> steps]
                /\ last' = last
  /\ stack' = SubSeq(stack, 1, Len(stack) - 1)
  /\ UNCHANGED <<set_, succ, calls, homVars>>

\* op() of the innermost active lookup throws an EvaluationError.
EvalThrow ==
  /\ exc = NoError
  /\ Catch(NoError)
  /\ raised_under' = [i \in 1..Len(stack) |-> stack[i].op]

\* An EvaluationError thrown by a nested lookup leaves op() of the lookup
\* that issued it.
Propagate ==
  /\ exc.raised
  /\ Catch(exc)
  /\ UNCHANGED raised_under

\* cleanup() called by the user.
Cleanup ==
  /\ exc = NoError /\ stack = <<>>
  /\ calls < MaxCalls
  /\ \E c \in cleanup(set_, stats_) :
       /\ set_' = c[1]
       /\ stats_' = c[2]
  /\ succ' = EmplaceFront(succ)
  /\ calls' = calls + 1
  /\ UNCHANGED <<stack, exc, last, raised_under, homVars>>

\* clear() called by the user.
Clear ==
  /\ exc = NoError /\ stack = <<>>
  /\ calls < MaxCalls
  /\ set_' = clear(set_)
  /\ calls' = calls + 1
  /\ UNCHANGED <<stats_, stack, exc, last, succ, raised_under, homVars>>

Next ==
  \/ \E op \in Operations : Lookup(op)
  \/ EvalReturn
  \/ EvalThrow
  \/ Propagate
  \/ Cleanup
  \/ Clear

CacheSpec == Init /\ [][Next]_vars

(***************************************************************************)
(* The cache used by a caller whose operations look nothing up: lookups    *)
(* follow each other, none fails, and only lookups trigger cleanups.       *)
(***************************************************************************)
SeqLookup(op) ==
  /\ stack = <<>>
  /\ exc = NoError
  /\ calls < MaxSeqCalls
  /\ \/ LookupFiltered(op)
     \/ LookupHit(op)
     \/ LookupMiss(op)

SeqNext ==
  \/ \E op \in Operations : SeqLookup(op)
  \/ EvalReturn

LfuSpec == Init /\ [][SeqNext]_vars

(***************************************************************************)
(* Homomorphisms.  A homomorphism is the unified (hash-consed) term of its *)
(* constructor: two homomorphisms are the same iff they have the same      *)
(* structure.  The operands of a sum are a flat_set: a set.                *)
(***************************************************************************)
Identifiers == {"a", "b"}

\* Id<C>()
Id == [type |-> "identity"]

\* A user homomorphism that works on the values of one variable.
Inductive(name) == [type |-> "inductive", name |-> name]

\* Constant<C>(s)
Constant(s) == [type |-> "constant", sdd |-> s]

\* Local<C>(id, h): h applied to the nested SDD of id.
Local(id, h) == [type |-> "local", identifier |-> id, h |-> h]

\* homomorphism<C>::create(construct<fixpoint<C>>(), h)
create_fixpoint(h) == [type |-> "fixpoint", h |-> h]

\* homomorphism<C>::create_variable_size(construct<sum<C>>(), operands)
create_sum(operands) == [type |-> "sum", operands |-> operands]

(***************************************************************************)
(* Fixpoint: the smart constructor and the visitor it applies to h.        *)
(***************************************************************************)
RECURSIVE Fixpoint(_)

\* operator()(const identity<C>&, h)
fixpoint_builder_identity(h) == h

\* operator()(const fixpoint<C>& f, h)
fixpoint_builder_fixpoint(f) == f.h

\* operator()(const T&, h), any other homomorphism
fixpoint_builder_other(h) == create_fixpoint(h)

\* A fixpoint node made over the Local.
fixpoint_builder_local_wrapped(l) == create_fixpoint(l)

\* operator()(const local<C>& l, h)
fixpoint_builder_local(l) == Local(l.identifier, Fixpoint(l.h))

fixpoint_builder_helper(h) ==
  CASE h.type = "identity" -> fixpoint_builder_identity(h)
    [] h.type = "fixpoint" -> fixpoint_builder_fixpoint(h)
    [] h.type = "local" -> fixpoint_builder_local(h)
    [] OTHER -> fixpoint_builder_other(h)

Fixpoint(h) == fixpoint_builder_helper(h)

(***************************************************************************)
(* Sum: the smart constructor and the visitor it applies to each operand.  *)
(* The visitor fills `operands' (a flat_set) and `locals' (identifier ->   *)
(* the homomorphisms of the Local operands with that identifier).  The     *)
(* order given to Sum is handed on unchanged and is left out.              *)
(***************************************************************************)
NoOperands == [operands |-> {}, locals |-> [id \in {} |-> <<>>]]

\* The sum keeps a nested sum as one of its operands.
sum_builder_sum_kept(acc, s) == [acc EXCEPT !.operands = @ \cup {s}]

\* The sum keeps a Local as one of its operands.
sum_builder_local_kept(acc, l) == [acc EXCEPT !.operands = @ \cup {l}]

\* A sum node whatever the number of operands.
sum_create_always(operands) == create_sum(operands)

\* The identifier of a Local is registered, its homomorphism is not listed.
sum_builder_local_dropped(acc, l) ==
  [acc EXCEPT !.locals =
     [i \in DOMAIN acc.locals \cup {l.identifier} |->
        IF i \in DOMAIN acc.locals THEN acc.locals[i] ELSE <<>>]]

RECURSIVE sum_builder_helper(_, _)
RECURSIVE visit_operands(_, _)
RECURSIVE visit_range(_, _)
RECURSIVE Sum(_)

\* operator()(const sum<C>& s, h): the operands of s are visited in turn.
sum_builder_sum(acc, s) == visit_operands(acc, s.operands)

\* operator()(const local<C>& l, h): locals[l.identifier()].emplace_back(l.hom())
sum_builder_local(acc, l) ==
  LET id == l.identifier
      list == IF id \in DOMAIN acc.locals THEN acc.locals[id] ELSE <<>>
  IN [acc EXCEPT !.locals =
        [i \in DOMAIN acc.locals \cup {id} |->
           IF i = id THEN Append(list, l.h) ELSE acc.locals[i]]]

\* operator()(const T&, h): operands.insert(h)
sum_builder_other(acc, h) == [acc EXCEPT !.operands = @ \cup {h}]

sum_builder_helper(acc, h) ==
  CASE h.type = "sum" -> sum_builder_sum(acc, h)
    [] h.type = "local" -> sum_builder_local(acc, h)
    [] OTHER -> sum_builder_other(acc, h)

\* for (const auto& op : s.operands()): the operands of a sum node, in the
\* order of its flat_set.
visit_operands(acc, S) ==
  IF S = {} THEN acc
  ELSE LET h == CHOOSE op \in S : TRUE
       IN visit_operands(sum_builder_helper(acc, h), S \ {h})

\* for (; begin != end; ++begin): the operands given to Sum, in their order.
visit_range(acc, ops) ==
  IF ops = <<>> THEN acc
  ELSE visit_range(sum_builder_helper(acc, Head(ops)), Tail(ops))

\* What `Sum' throws when it is given no operand.
InvalidArgument == [type |-> "invalid_argument"]

\* The end of Sum: the only operand, or a sum node.
sum_create(operands) ==
  IF Cardinality(operands) = 1
  THEN CHOOSE h \in operands : TRUE
  ELSE create_sum(operands)

\* Sum<C>(o, begin, end)
Sum(ops) ==
  IF Len(ops) = 0
  THEN InvalidArgument
  ELSE LET acc == visit_range(NoOperands, ops)
           regrouped == {Local(id, Sum(acc.locals[id])) : id \in DOMAIN acc.locals}
       IN sum_create(acc.operands \cup regrouped)

(***************************************************************************)
(* The homomorphisms that the smart constructors are called with: the      *)
(* ones that two rounds of construction make from the basic ones.          *)
(***************************************************************************)
MaxOperands == 3

Basic == {Id, Inductive("flip_a"), Inductive("flip_b")}

Constructed(H) ==
  H \cup {Fixpoint(h) : h \in H}
    \cup {Local(id, h) : id \in Identifiers, h \in H \ {Id}}
    \cup {Sum(<<g, h>>) : g, h \in H}

Homs1 == Constructed(Basic)
Homs2 == Constructed(Homs1)

Ranges(H, n) == UNION {[1..k -> H] : k \in 0..n}

FixpointCall(h) == [ctor |-> "Fixpoint", h |-> h, operands |-> <<>>]
SumCall(ops) == [ctor |-> "Sum", h |-> NoHom, operands |-> ops]

\* The calls whose ranges hold n operands at most, and two when the operands
\* come from a second round of construction.
Calls(n) ==
  {FixpointCall(h) : h \in Homs2}
    \cup {SumCall(ops) : ops \in Ranges(Homs1, n)}
    \cup {SumCall(<<g, h>>) : g, h \in Homs2}

BuilderInit ==
  /\ CacheIdle
  /\ EvalIdle
  /\ OrderIdle
  /\ ctor_call \in Calls(MaxOperands)
  /\ ctor_made = NoHom

\* The user calls Fixpoint(h).
CallFixpoint ==
  /\ ctor_call.ctor = "Fixpoint"
  /\ ctor_made = NoHom
  /\ ctor_made' = Fixpoint(ctor_call.h)
  /\ UNCHANGED <<ctor_call, cacheVars, evalVars, orderVars>>

\* The user calls Sum(o, begin, end).
CallSum ==
  /\ ctor_call.ctor = "Sum"
  /\ ctor_made = NoHom
  /\ ctor_made' = Sum(ctor_call.operands)
  /\ UNCHANGED <<ctor_call, cacheVars, evalVars, orderVars>>

BuilderNext ==
  \/ CallFixpoint
  \/ CallSum

BuilderSpec == BuilderInit /\ [][BuilderNext]_vars

(***************************************************************************)
(* SDDs and evaluation.  An SDD is the set of tuples it encodes; a tuple   *)
(* gives a value to each variable of the order <<a, b>>.  zero is the      *)
(* empty set, one holds the empty tuple.  SDDs are unified: two SDDs are   *)
(* the same iff they encode the same set.                                  *)
(***************************************************************************)
\* Evaluations of h_ after which an evaluation of Fixpoint(h) is abandoned.
MaxApplications == 4

Variables == <<"a", "b">>
Values == 0..1
Tuples == [1..Len(Variables) -> Values]
SDDs == SUBSET Tuples
one == {<<>>}

\* The user homomorphisms: each works tuple by tuple.
flip(S, v) == {[t EXCEPT ![v] = 1 - @] : t \in S}
assign(S, v) == {[t EXCEPT ![v] = 1] : t \in S}
select(S, v) == {t \in S : t[v] = 1}

inductive(name, S) ==
  CASE name = "flip_a" -> flip(S, 1)
    [] name = "flip_b" -> flip(S, 2)
    [] name = "set_a" -> assign(S, 1)
    [] name = "select_a" -> select(S, 1)

\* dd::sum(cxt, operands): the union of the operands of the builder.
dd_sum(results) == UNION {results[i] : i \in DOMAIN results}

\* dd::sum raises top<C> when two operands are not of the same level.
Incompatible(results) ==
  \E i, j \in DOMAIN results :
    \E s \in results[i], t \in results[j] : Len(s) # Len(t)

\* Some order of the operands of a sum node: the flat_set is ordered by the
\* addresses of the unified homomorphisms.
StorageOrders(S) ==
  {ops \in [1..Cardinality(S) -> S] : {ops[i] : i \in DOMAIN ops} = S}

\* h(cxt, o, x) for the homomorphisms evaluated inside a fixpoint or a sum:
\* no operand of theirs raises an error.
RECURSIVE Eval(_, _)
RECURSIVE Throws(_, _)

\* top<C>: the two operands that dd::sum could not unite.
top(lhs, rhs) == [lhs |-> lhs, rhs |-> rhs]

\* The top<C> that dd::sum may raise for the operands of the builder.
Tops(results) ==
  {top(results[p[1]], results[p[2]]) :
     p \in {q \in (DOMAIN results) \X (DOMAIN results) :
              /\ q[1] < q[2]
              /\ \E s \in results[q[1]], t \in results[q[2]] : Len(s) # Len(t)}}

\* evaluation_error<C> e(x)
evaluation_error(S) == [sdd |-> S, top |-> <<>>, steps |-> <<>>]

\* An add_top that forgets the top.
add_top_forgotten(e, t) == e

\* e.add_top(t)
add_top(e, t) == [e EXCEPT !.top = <<t>>]

\* fixpoint::operator() as a whole, for a fixpoint that is an operand, made
\* of at most n + 1 evaluations of h.
RECURSIVE fixpoint_evaluate(_, _, _)
fixpoint_evaluate(h, S, n) ==
  LET S1 == Eval(h, S)
  IN IF S1 = S \/ n = 0 THEN S1 ELSE fixpoint_evaluate(h, S1, n - 1)

\* The evaluation_errors that fixpoint::operator() may let through.
RECURSIVE fixpoint_throws(_, _, _)
fixpoint_throws(h, S, n) ==
  IF Throws(h, S) # {}
  THEN Throws(h, S)
  ELSE LET S1 == Eval(h, S)
       IN IF S1 = S \/ n = 0 THEN {} ELSE fixpoint_throws(h, S1, n - 1)

\* The evaluation_errors that sum::operator() may throw: the one of an
\* operand, or its own when dd::sum raises top<C>.
sum_throws(ops, S) ==
  LET thrown == UNION {Throws(ops[i], S) : i \in DOMAIN ops}
  IN IF thrown # {}
     THEN thrown
     ELSE {add_top(evaluation_error(S), t) :
             t \in Tops([i \in DOMAIN ops |-> Eval(ops[i], S)])}

\* The evaluation_errors that h(cxt, o, x) may throw; none when it returns.
Throws(h, S) ==
  CASE h.type = "sum" ->
         UNION {sum_throws(ops, S) : ops \in StorageOrders(h.operands)}
    [] h.type = "fixpoint" -> fixpoint_throws(h.h, S, MaxApplications)
    [] OTHER -> {}

\* sum_operands.add(r) that keeps the latest result alone.
sum_builder_replace(builder, r) == <<r>>

\* sum_operands.add(r)
sum_builder_add(builder, r) == Append(builder, r)

\* A sum that evaluates the first of its operands alone.
sum_evaluate_first(ops, S) == Eval(ops[1], S)

\* sum::operator() as a whole, on operands stored in the order ops.
sum_evaluate(ops, S) == dd_sum([i \in DOMAIN ops |-> Eval(ops[i], S)])

Eval(h, S) ==
  CASE h.type = "identity" -> S
    [] h.type = "constant" -> h.sdd
    [] h.type = "inductive" -> inductive(h.name, S)
    [] h.type = "sum" ->
         sum_evaluate(CHOOSE ops \in StorageOrders(h.operands) : TRUE, S)
    [] h.type = "fixpoint" -> fixpoint_evaluate(h.h, S, MaxApplications)

\* fixpoint::operator(): h_ evaluated on the SDD given to the fixpoint.
fixpoint_apply_to_operand(h, S, S1) == Eval(h, S)

\* fixpoint::operator(): x1 = h_(cxt, x1)
fixpoint_apply(h, S, S1) == Eval(h, S1)

\* The loop of fixpoint::operator() with a body that runs once.
fixpoint_once(S1, S2) == FALSE

\* The loop of fixpoint::operator() with a test that never ends it.
fixpoint_forever(S1, S2) == TRUE

\* fixpoint::operator(): while (x1 != x2)
fixpoint_continue(S1, S2) == S1 # S2

Leaves ==
  {Inductive("flip_a"), Inductive("flip_b"), Inductive("set_a"), Inductive("select_a")}

\* The homomorphisms under a fixpoint.
Bodies ==
  Leaves \cup {Sum(<<g, h>>) : g, h \in Leaves \cup {Id}}
         \cup {Sum(<<Id, Inductive("flip_a"), Inductive("flip_b")>>)}

FixpointNodes == {h \in {Fixpoint(b) : b \in Bodies} : h.type = "fixpoint"}

\* An operand whose evaluation on an SDD that is not empty throws: the sum
\* under the fixpoint unites that SDD with one.
Throwing == Fixpoint(Sum(<<Id, Constant(one)>>))

SumNodes ==
  {h \in {Sum(ops) : ops \in [1..3 -> Leaves \cup {Id, Constant(one), Throwing}]} :
     h.type = "sum"}

EvalInit ==
  /\ CacheIdle
  /\ BuilderIdle
  /\ OrderIdle
  /\ ev_hom \in FixpointNodes \cup SumNodes
  /\ ev_x \in SDDs
  /\ ev_pc = "call"
  /\ x1 = {}
  /\ x2 = {}
  /\ ev_applied = 0
  /\ ev_pending = <<>>
  /\ sum_operands = <<>>
  /\ ev_res = {}
  /\ ev_first = <<>>
  /\ ev_error = <<>>

\* fixpoint::operator(): SDD<C> x1 = x; SDD<C> x2 = x1;
FixpointEnter ==
  /\ ev_pc = "call"
  /\ ev_hom.type = "fixpoint"
  /\ x1' = ev_x
  /\ x2' = ev_x
  /\ ev_pc' = "do"
  /\ UNCHANGED <<ev_hom, ev_x, ev_applied, ev_pending, sum_operands, ev_res, ev_first, ev_error>>
  /\ UNCHANGED <<cacheVars, builderVars, orderVars>>

\* fixpoint::operator(): x2 = x1; x1 = h_(cxt, x1);
FixpointBody ==
  /\ ev_pc = "do"
  /\ ev_applied < MaxApplications
  /\ x2' = x1
  /\ x1' = fixpoint_apply(ev_hom.h, ev_x, x1)
  /\ ev_applied' = ev_applied + 1
  /\ ev_pc' = "while"
  /\ UNCHANGED <<ev_hom, ev_x, ev_pending, sum_operands, ev_res, ev_first, ev_error>>
  /\ UNCHANGED <<cacheVars, builderVars, orderVars>>

\* fixpoint::operator(): while (x1 != x2); return x1;
FixpointTest ==
  /\ ev_pc = "while"
  /\ IF fixpoint_continue(x1, x2)
     THEN /\ ev_pc' = "do"
          /\ ev_res' = ev_res
     ELSE /\ ev_pc' = "done"
          /\ ev_res' = x1
  /\ UNCHANGED <<ev_hom, ev_x, x1, x2, ev_applied, ev_pending, sum_operands, ev_first, ev_error>>
  /\ UNCHANGED <<cacheVars, builderVars, orderVars>>

\* The user evaluates the fixpoint again, on the SDD it returned.
FixpointAgain ==
  /\ ev_pc = "done"
  /\ ev_hom.type = "fixpoint"
  /\ ev_first = <<>>
  /\ ev_first' = <<ev_x, ev_res>>
  /\ ev_x' = ev_res
  /\ ev_applied' = 0
  /\ ev_pc' = "call"
  /\ UNCHANGED <<ev_hom, x1, x2, ev_pending, sum_operands, ev_res, ev_error>>
  /\ UNCHANGED <<cacheVars, builderVars, orderVars>>

\* sum::operator(): dd::sum_builder<C, SDD<C>> sum_operands(size_);
SumEnter ==
  /\ ev_pc = "call"
  /\ ev_hom.type = "sum"
  /\ ev_pending' \in StorageOrders(ev_hom.operands)
  /\ sum_operands' = <<>>
  /\ ev_pc' = "for"
  /\ UNCHANGED <<ev_hom, ev_x, x1, x2, ev_applied, ev_res, ev_first, ev_error>>
  /\ UNCHANGED <<cacheVars, builderVars, orderVars>>

\* sum::operator(): sum_operands.add(op(cxt, o, x));
SumOperand ==
  /\ ev_pc = "for"
  /\ ev_pending # <<>>
  /\ Throws(Head(ev_pending), ev_x) = {}
  /\ sum_operands' = sum_builder_add(sum_operands, Eval(Head(ev_pending), ev_x))
  /\ ev_pending' = Tail(ev_pending)
  /\ UNCHANGED <<ev_hom, ev_x, ev_pc, x1, x2, ev_applied, ev_res, ev_first, ev_error>>
  /\ UNCHANGED <<cacheVars, builderVars, orderVars>>

\* sum::operator(): return dd::sum(cxt.sdd_context(), std::move(sum_operands));
SumReturn ==
  /\ ev_pc = "for"
  /\ ev_pending = <<>>
  /\ ~Incompatible(sum_operands)
  /\ ev_res' = dd_sum(sum_operands)
  /\ ev_pc' = "done"
  /\ UNCHANGED <<ev_hom, ev_x, x1, x2, ev_applied, ev_pending, sum_operands, ev_first, ev_error>>
  /\ UNCHANGED <<cacheVars, builderVars, orderVars>>

\* sum::operator(): op(cxt, o, x) throws an evaluation_error, which leaves
\* the loop and the sum.
SumOperandThrows ==
  /\ ev_pc = "for"
  /\ ev_pending # <<>>
  /\ \E e \in Throws(Head(ev_pending), ev_x) : ev_error' = <<e>>
  /\ ev_pc' = "evaluation_error"
  /\ UNCHANGED <<ev_hom, ev_x, x1, x2, ev_applied, ev_pending, sum_operands, ev_res, ev_first>>
  /\ UNCHANGED <<cacheVars, builderVars, orderVars>>

\* sum::operator(): catch (top<C>& t): an evaluation_error is thrown.
SumThrow ==
  /\ ev_pc = "for"
  /\ ev_pending = <<>>
  /\ Incompatible(sum_operands)
  /\ \E t \in Tops(sum_operands) :
       ev_error' = <<add_top(evaluation_error(ev_x), t)>>
  /\ ev_pc' = "evaluation_error"
  /\ UNCHANGED <<ev_hom, ev_x, x1, x2, ev_applied, ev_pending, sum_operands, ev_res, ev_first>>
  /\ UNCHANGED <<cacheVars, builderVars, orderVars>>

EvalNext ==
  \/ FixpointEnter
  \/ FixpointBody
  \/ FixpointTest
  \/ FixpointAgain
  \/ SumEnter
  \/ SumOperand
  \/ SumOperandThrows
  \/ SumReturn
  \/ SumThrow

EvalSpec == EvalInit /\ [][EvalNext]_vars

\* An evaluation runs on as long as it has a step to take: operator() is
\* one sequential computation.
EvalFairSpec == EvalSpec /\ WF_vars(EvalNext)

(***************************************************************************)
(* Vocabulary of the properties.                                           *)
(***************************************************************************)
HasEntry(op) == \E e \in set_ : e.operation = op

Top == stack[Len(stack)]

Pushed(op, kind) ==
  /\ Len(stack') = Len(stack) + 1
  /\ SubSeq(stack', 1, Len(stack)) = stack
  /\ stack'[Len(stack')].op = op
  /\ stack'[Len(stack')].kind = kind

\* The entries of S that fewer than k entries of S beat in number of hits.
MostHit(S, k) ==
  {e \in S : Cardinality({d \in S : d.nb_hits > e.nb_hits}) < k}

DistinctHits(S) == \A a, b \in S : a # b => a.nb_hits # b.nb_hits

NoActiveLookup == stack = <<>> /\ exc = NoError

(***************************************************************************)
(* C1: in every reachable state, also while an outer operation is being    *)
(* evaluated and issues lookups of its own, the cache holds at most        *)
(* max_size_ entries.                                                      *)
(***************************************************************************)
C1_SizeWithinMaxSize == cache_size(set_) <= max_size_

(***************************************************************************)
(* C2: once no lookup is active (every error has propagated to the user),  *)
(* each round's hits, misses and filtered equal the number of lookups of   *)
(* that kind counted in that round that returned; and at no time does a    *)
(* counter exceed the number of calls made (no counter wraps below zero).  *)
(***************************************************************************)
C2_CountersAccurate ==
  /\ NoActiveLookup => stats_ = succ
  /\ \A i \in 1..Len(stats_) :
       /\ stats_[i].hits <= calls
       /\ stats_[i].misses <= calls
       /\ stats_[i].filtered <= calls

(***************************************************************************)
(* C3 as stated: in the sequential use of the cache, starting from the     *)
(* empty cache, when the lookup of a new cacheable operation finds         *)
(* max_size_ entries with pairwise different nb_hits, the entries that it  *)
(* leaves are the max_size_ / 2 most hit ones, and the new entry joins     *)
(* them when the operation returns.                                        *)
(***************************************************************************)
C3_Case(op) ==
  /\ SeqLookup(op)
  /\ Cacheable(op)
  /\ ~HasEntry(op)
  /\ Len(stats_) = 1
  /\ cache_size(set_) = max_size_
  /\ DistinctHits(set_)

C3_NewestJoins ==
  (EvalReturn /\ Top.kind = "miss")
    => set_' = set_ \cup {[operation |-> Top.op, result |-> Result(Top.op), nb_hits |-> 0]}

C3_LfuKeepsHalfOfMaxSize ==
  [][/\ \A op \in Operations :
          C3_Case(op) => set_' = MostHit(set_, max_size_ \div 2)
     /\ C3_NewestJoins]_vars

(***************************************************************************)
(* C3 as amended: ... the entries that it leaves are the                   *)
(* max_size_ - max_size_ / 2 most hit ones (the half rounded up), and the  *)
(* new entry joins them when the operation returns.                        *)
(***************************************************************************)
C3_LfuKeepsUpperHalf ==
  [][/\ \A op \in Operations :
          C3_Case(op) => set_' = MostHit(set_, max_size_ - max_size_ \div 2)
     /\ C3_NewestJoins]_vars

\* max_size_ + 1 distinct operations have been inserted, the first max_size_
\* with different numbers of hits; the two most hit and the newest remain.
C3_Witness ==
  /\ NoActiveLookup
  /\ Len(stats_) = 2
  /\ stats_[2].misses = max_size_ + 1
  /\ last.kind = "miss" /\ last.status = "returned"
  /\ cache_size(set_) = max_size_ - max_size_ \div 2 + 1
  /\ {e.nb_hits : e \in set_} = {0, 1, 2}
  /\ \E e \in set_ : e.operation = last.op /\ e.nb_hits = 0

(***************************************************************************)
(* C4: a cleanup of a cache of n entries removes exactly n / 2 (rounded    *)
(* down) entries, none of which has more hits than an entry that stays,    *)
(* and leaves n - n / 2 entries.  A cleanup is the step that opens a       *)
(* round, whether the user or a lookup runs it.                            *)
(***************************************************************************)
C4_CleanupHalves ==
  [][Len(stats_') = Len(stats_) + 1 =>
       LET n == Cardinality(set_)
           removed == set_ \ set_'
       IN /\ set_' \subseteq set_
          /\ Cardinality(removed) = n \div 2
          /\ \A r \in removed : \A s \in set_' : r.nb_hits <= s.nb_hits
          /\ Cardinality(set_') = n - n \div 2]_vars

\* A cleanup has removed one of three entries, and kept the one that was hit.
C4_Witness ==
  /\ Len(stats_) = 2
  /\ succ[2].misses = 3
  /\ succ[2].hits = 1
  /\ stats_[1] = round
  /\ cache_size(set_) = 2
  /\ \E e \in set_ : e.nb_hits = 1

(***************************************************************************)
(* C5: every entry stores the result of evaluating its operation, and      *)
(* every lookup that returns gives that result, whatever lookups,          *)
(* cleanups and clears came before; an entry stays, with its result, over  *)
(* every step that is neither a cleanup nor a clear; the lookup of a       *)
(* cacheable operation that returns leaves an entry for it; and the        *)
(* lookup of an operation that has an entry returns the same result,       *)
(* evaluates nothing and adds exactly one to hits.                         *)
(***************************************************************************)
C5_EntryStays ==
  (~Clear /\ Len(stats_') = Len(stats_))
    => \A e \in set_ :
         \E d \in set_' : d.operation = e.operation /\ d.result = e.result

C5_SecondLookupHits ==
  \A op \in Operations :
    (Lookup(op) /\ HasEntry(op))
      => /\ stack' = stack
         /\ last'.status = "returned"
         /\ last'.op = op
         /\ last'.result = Result(op)
         /\ stats_'[1].hits = (stats_[1].hits + 1) % SizeModulus

C5_FirstLookupStores ==
  (EvalReturn /\ Top.kind = "miss")
    => \E d \in set_' : d.operation = Top.op /\ d.result = last'.result

C5_Transparency ==
  /\ [](\A e \in set_ : e.result = Result(e.operation))
  /\ [](last.status = "returned" => last.result = Result(last.op))
  /\ [][C5_EntryStays /\ C5_SecondLookupHits /\ C5_FirstLookupStores]_vars

\* An operation was evaluated, the cache cleared, the operation evaluated
\* again and then looked up a third time: a hit with the same result.
C5_Witness ==
  /\ NoActiveLookup
  /\ calls = 4
  /\ Len(stats_) = 1
  /\ stats_[1] = [hits |-> 1, misses |-> 2, filtered |-> 0]
  /\ cache_size(set_) = 1
  /\ last.kind = "hit" /\ last.result = Result(last.op)

(***************************************************************************)
(* C6 as stated: a miss of a cacheable operation runs cleanup if the cache *)
(* is full, evaluates, inserts the entry and only then counts the miss, in *)
(* the round that is then the current one (the round that the cleanup      *)
(* opened, if it ran one); the cleanup leaves no entry for the operation,  *)
(* and the insertion removes nothing.                                      *)
(***************************************************************************)
C6_MissCase(op) == Lookup(op) /\ Cacheable(op) /\ ~HasEntry(op)

C6_Full == cache_size(set_) >= max_size_

C6_NewEntry == [operation |-> Top.op, result |-> Result(Top.op), nb_hits |-> 0]

C6_MissCountedAfterInsertion ==
  [][/\ \A op \in Operations :
          C6_MissCase(op)
            => /\ Pushed(op, "miss")
               /\ set_' \subseteq set_
               /\ \A e \in set_' : e.operation # op
               /\ stats_' = IF C6_Full THEN <<round>> \o stats_ ELSE stats_
     /\ (EvalReturn /\ Top.kind = "miss")
          => /\ set_' = set_ \cup {C6_NewEntry}
             /\ stats_' = [stats_ EXCEPT ![1].misses = (@ + 1) % SizeModulus]]_vars

(***************************************************************************)
(* C6 as amended: a miss of a cacheable operation first counts the miss in *)
(* the current round, then runs cleanup if the cache is full, evaluates    *)
(* and inserts the entry; so a miss that triggers a cleanup is counted in  *)
(* the round that this cleanup closes, the round it opens starts at zero,  *)
(* the cleanup leaves no entry for the operation, and the insertion        *)
(* removes nothing and changes no counter.                                 *)
(***************************************************************************)
C6_MissCountedBeforeCleanup ==
  [][/\ \A op \in Operations :
          C6_MissCase(op)
            => /\ Pushed(op, "miss")
               /\ set_' \subseteq set_
               /\ \A e \in set_' : e.operation # op
               /\ LET counted ==
                        [stats_ EXCEPT ![1].misses = (@ + 1) % SizeModulus]
                  IN stats_' = IF C6_Full THEN <<round>> \o counted ELSE counted
               /\ C6_Full <=> set_' # set_
     /\ (EvalReturn /\ Top.kind = "miss")
          => /\ set_' = set_ \cup {C6_NewEntry}
             /\ stats_' = stats_]_vars

\* The fourth miss found the cache full: it is counted with the three
\* others in the closed round, and its entry is in the cache.
C6_Witness ==
  /\ NoActiveLookup
  /\ Len(stats_) = 2
  /\ stats_[1] = round
  /\ stats_[2] = [hits |-> 0, misses |-> max_size_ + 1, filtered |-> 0]
  /\ last.kind = "miss" /\ last.status = "returned"
  /\ \E e \in set_ : e.operation = last.op
  /\ cache_size(set_) = max_size_

(***************************************************************************)
(* C7: the lookup of an operation that has an entry evaluates nothing,     *)
(* adds one to the nb_hits of that entry and to hits of the current round, *)
(* returns the stored result and changes nothing else: no other entry, no  *)
(* other counter, no other round.                                          *)
(***************************************************************************)
C7_HitEffect ==
  [][\A op \in Operations :
       (Lookup(op) /\ HasEntry(op))
         => \E e \in set_ :
              /\ e.operation = op
              /\ stack' = stack
              /\ set_' = (set_ \ {e})
                           \cup {[e EXCEPT !.nb_hits = (@ + 1) % UIntModulus]}
              /\ stats_' = [stats_ EXCEPT ![1].hits = (@ + 1) % SizeModulus]
              /\ last' = Returned(op, "hit", e.result)]_vars

\* An entry has been hit twice.
C7_Witness ==
  /\ last.kind = "hit"
  /\ stats_[1].hits = 2
  /\ \E e \in set_ : e.operation = last.op /\ e.nb_hits = 2 /\ e.result = last.result

(***************************************************************************)
(* C8: an operation that some filter of the chain rejects never has an     *)
(* entry; each of its lookups evaluates it, adds one to filtered of the    *)
(* current round and touches neither the entries nor hits and misses; and  *)
(* its return changes neither the entries nor the statistics.              *)
(***************************************************************************)
C8_Rejected(op) == \E i \in 1..Len(Filters) : ~Filters[i][op]

C9_RunsCleanup ==
  \/ Cleanup
  \/ \E op \in Operations :
       Lookup(op) /\ Cacheable(op) /\ ~HasEntry(op) /\ cache_size(set_) >= max_size_

RECURSIVE C9_Sum(_, _, _)
C9_Sum(rounds, field, i) ==
  IF i = 0 THEN 0 ELSE rounds[i][field] + C9_Sum(rounds, field, i - 1)

C9_Rounds ==
  /\ stats_ = <<round>>
  /\ [](/\ cleanups(stats_) = Len(stats_) - 1
        /\ \A f \in {"hits", "misses", "filtered"} :
             total(stats_)[f] = C9_Sum(stats_, f, Len(stats_)) % SizeModulus)
  /\ [][IF C9_RunsCleanup
        THEN /\ Len(stats_') = Len(stats_) + 1
             /\ stats_'[1] = round
             /\ Tail(Tail(stats_')) = Tail(stats_)
        ELSE /\ Len(stats_') = Len(stats_)
             /\ Tail(stats_') = Tail(stats_)]_vars

\* Two cleanups, one by a lookup and one by the user: three rounds.
C9_Witness ==
  /\ NoActiveLookup
  /\ Len(stats_) = 3
  /\ stats_[1] = round /\ stats_[2] = round
  /\ stats_[3].misses = max_size_ + 1
  /\ total(stats_).misses = max_size_ + 1

(***************************************************************************)
(* C10: clear() leaves no entry and does not touch the statistics; the     *)
(* lookup of a cacheable operation that has no entry, as every operation   *)
(* after clear(), is a miss: it is counted and the operation evaluated.    *)
(***************************************************************************)
C10_ClearDiscardsAll ==
  [][/\ Clear => /\ set_' = {}
                 /\ cache_size(set_') = 0
                 /\ stats_' = stats_
     /\ \A op \in Operations :
          (Lookup(op) /\ Cacheable(op) /\ ~HasEntry(op))
            => /\ Pushed(op, "miss")
               /\ Len(stats_') = Len(stats_) =>
                    stats_'[1].misses = (stats_[1].misses + 1) % SizeModulus]_vars

\* Two misses were counted and returned, no cleanup ran, and one entry is
\* left: the cache was cleared between the two.
C10_Witness ==
  /\ NoActiveLookup
  /\ calls = 3
  /\ stats_ = <<[hits |-> 0, misses |-> 2, filtered |-> 0]>>
  /\ succ = stats_
  /\ cache_size(set_) = 1

(***************************************************************************)
(* Vocabulary of the properties of the smart constructors.                 *)
(***************************************************************************)
FixpointReturned == ctor_call.ctor = "Fixpoint" /\ ctor_made # NoHom

SumReturned == ctor_call.ctor = "Sum" /\ ctor_made # NoHom

(***************************************************************************)
(* C11: the Fixpoint smart constructor applied to a homomorphism that is   *)
(* already a fixpoint, Fixpoint(h), returns that same homomorphism:        *)
(* Fixpoint(Fixpoint(h)) = Fixpoint(h).                                    *)
(***************************************************************************)
C11_FixpointOfFixpoint ==
  (FixpointReturned /\ ctor_call.h.type = "fixpoint") => ctor_made = ctor_call.h

(***************************************************************************)
(* Vocabulary of the properties of the evaluation.                         *)
(***************************************************************************)
FixpointDone == ev_hom.type = "fixpoint" /\ ev_pc = "done"

SumDone == ev_hom.type = "sum" /\ ev_pc = "done"

\* h applied k times to S.
RECURSIVE Iterate(_, _, _)
Iterate(h, S, k) == IF k = 0 THEN S ELSE Eval(h, Iterate(h, S, k - 1))

IsFixedPoint(h, S) == Eval(h, S) = S

\* The least set that contains S and is closed under every g of gs.
LeastClosed(gs, S) ==
  LET Closed(T) == S \subseteq T /\ \A g \in gs : Eval(g, T) \subseteq T
  IN CHOOSE T \in SDDs : Closed(T) /\ \A U \in SDDs : Closed(U) => T \subseteq U

(***************************************************************************)
(* C12: the evaluation of Fixpoint(h) on x returns x_k of the sequence     *)
(* x_0 = x, x_{i+1} = h(x_i), for the least k with h(x_k) = x_k; h is      *)
(* applied at least once (k + 1 times); the result r satisfies h(r) = r;   *)
(* and when x is already a fixed point of h the result is x.               *)
(***************************************************************************)
C12_LeastIterate ==
  FixpointDone =>
    LET h == ev_hom.h
    IN /\ ev_applied >= 1
       /\ \E k \in 0..MaxApplications :
            /\ ev_res = Iterate(h, ev_x, k)
            /\ IsFixedPoint(h, Iterate(h, ev_x, k))
            /\ \A j \in 0..(k - 1) : ~IsFixedPoint(h, Iterate(h, ev_x, j))
            /\ ev_applied = k + 1
       /\ IsFixedPoint(h, ev_res)
       /\ IsFixedPoint(h, ev_x) => ev_res = ev_x

C12_Witness ==
  /\ FixpointDone
  /\ ev_applied >= 3
  /\ ev_res # ev_x

(***************************************************************************)
(* C13: whenever the evaluation of Fixpoint(h) on x terminates, with r,    *)
(* the evaluation of Fixpoint(h) on r terminates with r (for selectors     *)
(* as for every other h).                                                  *)
(***************************************************************************)
C13_Idempotent ==
  /\ (FixpointDone /\ ev_first # <<>>) => ev_res = ev_first[2]
  /\ (ev_first # <<>> /\ ev_pc = "do") => ev_applied = 0

C13_Witness ==
  /\ FixpointDone
  /\ ev_first # <<>>
  /\ ev_hom.h = Inductive("select_a")
  /\ ev_first[1] # ev_first[2]
  /\ ev_res # {}

(***************************************************************************)
(* C14: for h = Sum(Identity, g), the evaluation of Fixpoint(h) on x       *)
(* returns the least set that contains x and is closed under g (under      *)
(* every g when the sum has several); with g = flip_a, the fixpoint of     *)
(* {a=0} is {a=0} union {a=1}.                                             *)
(***************************************************************************)
C14_Closure ==
  /\ (FixpointDone /\ ev_hom.h.type = "sum" /\ Id \in ev_hom.h.operands)
       => ev_res = LeastClosed(ev_hom.h.operands \ {Id}, ev_x)
  /\ (FixpointDone /\ ev_hom = Fixpoint(Sum(<<Id, Inductive("flip_a")>>))
        /\ ev_x = {<<0, 0>>})
       => ev_res = {<<0, 0>>, <<1, 0>>}

C14_Witness ==
  /\ FixpointDone
  /\ ev_hom = Fixpoint(Sum(<<Id, Inductive("flip_a")>>))
  /\ ev_x = {<<0, 0>>}
  /\ ev_first = <<>>
  /\ ev_res = {<<0, 0>>, <<1, 0>>}

\* The homomorphisms that h is made of, h included.
RECURSIVE Subterms(_)
Subterms(h) ==
  {h} \cup
    CASE h.type = "fixpoint" -> Subterms(h.h)
      [] h.type = "local" -> Subterms(h.h)
      [] h.type = "sum" -> UNION {Subterms(op) : op \in h.operands}
      [] OTHER -> {}

(***************************************************************************)
(* C15: Fixpoint(Local(id, h)) returns Local(id, Fixpoint(h)), the inner   *)
(* Fixpoint(h) being what the smart constructor returns for h; and no      *)
(* homomorphism returned by Fixpoint has itself a fixpoint of a Local      *)
(* that the homomorphism given to it did not have.                         *)
(***************************************************************************)
C15_FixpointOfLocal ==
  FixpointReturned =>
    /\ ctor_call.h.type = "local" =>
         /\ ctor_made.type = "local"
         /\ ctor_made.identifier = ctor_call.h.identifier
         /\ ctor_made.h = Fixpoint(ctor_call.h.h)
    /\ \A f \in Subterms(ctor_made) :
         (f.type = "fixpoint" /\ f.h.type = "local") => f \in Subterms(ctor_call.h)

C15_Witness ==
  /\ FixpointReturned
  /\ ctor_call.h.type = "local"
  /\ ctor_call.h.h.type = "local"
  /\ ctor_made.h.h.type = "fixpoint"

\* The operands of a range once its nested sums are flattened.
RECURSIVE Flattened(_)
Flattened(H) ==
  UNION {IF h.type = "sum" THEN Flattened(h.operands) ELSE {h} : h \in H}

Range(ops) == {ops[i] : i \in DOMAIN ops}

\* The elements of the set S, one after the other.
RECURSIVE Listed(_)
Listed(S) ==
  IF S = {} THEN <<>>
  ELSE LET h == CHOOSE e \in S : TRUE IN <<h>> \o Listed(S \ {h})

Permuted(ops) ==
  {[i \in DOMAIN ops |-> ops[p[i]]] :
     p \in {q \in [DOMAIN ops -> DOMAIN ops] : Range(q) = DOMAIN ops}}

\* The operands of the result of Sum: its own when it is a sum node, else
\* the result itself.
MadeOperands == IF ctor_made.type = "sum" THEN ctor_made.operands ELSE {ctor_made}

LocalsOf(H, id) == {l \in H : l.type = "local" /\ l.identifier = id}

(***************************************************************************)
(* C16: the result of Sum depends only on the set of the operands with     *)
(* nested sums flattened: the operands in any other order, given twice,    *)
(* or with some of them grouped in a nested Sum, give the same             *)
(* homomorphism, which is the one Sum gives for the flattened set.         *)
(***************************************************************************)
C16_SumCanonical ==
  (SumReturned /\ ctor_call.operands # <<>>) =>
    LET ops == ctor_call.operands
    IN /\ ctor_made = Sum(Listed(Flattened(Range(ops))))
       /\ \A p \in Permuted(ops) : Sum(p) = ctor_made
       /\ Sum(ops \o ops) = ctor_made
       /\ \A k \in 1..Len(ops) :
            Sum(<<Sum(SubSeq(ops, 1, k))>> \o SubSeq(ops, k + 1, Len(ops))) = ctor_made

C16_Witness ==
  /\ SumReturned
  /\ Len(ctor_call.operands) = 3
  /\ ctor_call.operands[1].type = "sum"
  /\ ctor_call.operands[2] \in ctor_call.operands[1].operands
  /\ ctor_call.operands[3].type = "local"
  /\ ctor_made.type = "sum"
  /\ Cardinality(ctor_made.operands) = 3

(***************************************************************************)
(* C17: in the result of Sum, the Local operands with the same identifier  *)
(* id (given directly or inside nested sums) are replaced by the single    *)
(* operand Local(id, Sum(h_1, ..., h_k)) of their homomorphisms; the       *)
(* result has at most one Local operand per identifier, Locals with        *)
(* different identifiers stay apart, and the other operands are kept.      *)
(***************************************************************************)
C17_LocalsRegrouped ==
  (SumReturned /\ ctor_call.operands # <<>>) =>
    LET given == Flattened(Range(ctor_call.operands))
    IN /\ \A id \in Identifiers :
            LET ls == LocalsOf(given, id)
            IN IF ls = {}
               THEN LocalsOf(MadeOperands, id) = {}
               ELSE LocalsOf(MadeOperands, id) =
                      {Local(id, Sum(Listed({l.h : l \in ls})))}
       /\ {h \in MadeOperands : h.type # "local"} = {h \in given : h.type # "local"}

C17_Witness ==
  /\ SumReturned
  /\ Len(ctor_call.operands) = 2
  /\ ctor_call.operands[1].type = "local"
  /\ ctor_call.operands[2].type = "sum"
  /\ \E l \in LocalsOf(ctor_call.operands[2].operands, ctor_call.operands[1].identifier) :
       l.h # ctor_call.operands[1].h
  /\ \E l \in ctor_call.operands[2].operands :
       l.type = "local" /\ l.identifier # ctor_call.operands[1].identifier
  /\ Cardinality(MadeOperands) = 2

(***************************************************************************)
(* C18: every sum node that Sum produces has at least two operands         *)
(* (pairwise distinct: they are a set); when the operands given reduce,    *)
(* once flattened and regrouped, to a single homomorphism, Sum returns     *)
(* that homomorphism and no sum node.                                      *)
(***************************************************************************)
C18_SumHasTwoOperands ==
  (SumReturned /\ ctor_call.operands # <<>>) =>
    /\ \A s \in Subterms(ctor_made) :
         s.type = "sum" => Cardinality(s.operands) >= 2
    /\ \A h \in Homs2 :
         Flattened(Range(ctor_call.operands)) = {h} => ctor_made = h

C18_Witness ==
  /\ SumReturned
  /\ Len(ctor_call.operands) = 3
  /\ ctor_call.operands[1].type = "local"
  /\ ctor_made = ctor_call.operands[1]

(***************************************************************************)
(* C19: the evaluation of Sum(h_1, ..., h_n) on x evaluates every operand  *)
(* on that same x and, when the union is defined, returns the union of     *)
(* the n results, whatever the order in which the operands are stored.     *)
(***************************************************************************)
C19_SumIsUnion ==
  /\ (ev_hom.type = "sum" /\ ev_pc = "for" /\ ev_pending = <<>>) =>
       /\ Len(sum_operands) = Cardinality(ev_hom.operands)
       /\ \E ops \in StorageOrders(ev_hom.operands) :
            sum_operands = [i \in DOMAIN ops |-> Eval(ops[i], ev_x)]
  /\ SumDone => ev_res = UNION {Eval(op, ev_x) : op \in ev_hom.operands}

C19_Witness ==
  /\ SumDone
  /\ Cardinality(ev_hom.operands) = 3
  /\ \A i, j \in DOMAIN sum_operands : i # j => sum_operands[i] # sum_operands[j]
  /\ \A i \in DOMAIN sum_operands : sum_operands[i] # ev_res

\* The sequence s from its last element to its first.
Reversed(s) == [i \in DOMAIN s |-> s[Len(s) + 1 - i]]

(***************************************************************************)
(* C20: an error raised by the evaluation of an operation (the Top of the  *)
(* union in a sum, turned into an EvaluationError without steps) under k   *)
(* nested active lookups reaches the top-level caller with a chain of      *)
(* exactly k operations: the operation of each enclosing lookup, cacheable *)
(* or filtered, from the innermost to the outermost; while it propagates   *)
(* it holds the operations of the lookups it has left.                     *)
(***************************************************************************)
C20_ChainIsRecursionDepth ==
  /\ (exc = NoError /\ last.status = "threw") =>
       /\ Len(last.steps) = Len(raised_under)
       /\ last.steps = Reversed(raised_under)
  /\ exc.raised =>
       /\ raised_under = [i \in DOMAIN stack |-> stack[i].op] \o Reversed(exc.steps)
       /\ Len(exc.steps) + Len(stack) = Len(raised_under)

C20_Witness ==
  /\ exc = NoError
  /\ last.status = "threw"
  /\ Len(last.steps) = 3
  /\ \E i \in DOMAIN last.steps : ~Cacheable(last.steps[i])
  /\ \E i \in DOMAIN last.steps : Cacheable(last.steps[i])

(***************************************************************************)
(* C21: when the union of the operand results raises Top, the evaluation   *)
(* of the sum ends with an evaluation_error that carries the operand x of  *)
(* the sum and that Top (two of the results, of different levels), with no *)
(* step; an evaluation_error thrown by an operand leaves the sum as the    *)
(* operand threw it (here by the sum under the fixpoint operand, with the  *)
(* operand of that sum, the two SDDs it could not unite, and no step);     *)
(* in both cases nothing is returned.                                      *)
(***************************************************************************)
C21_TopBecomesEvaluationError ==
  /\ (ev_hom.type = "sum" /\ ev_pc = "evaluation_error") =>
       /\ Len(ev_error) = 1
       /\ ev_res = {}
       /\ ev_error[1].steps = <<>>
       /\ Len(ev_error[1].top) = 1
       /\ IF ev_pending = <<>>
          THEN /\ ev_error[1].sdd = ev_x
               /\ \E i, j \in DOMAIN sum_operands :
                    /\ i < j
                    /\ ev_error[1].top[1] = top(sum_operands[i], sum_operands[j])
                    /\ \E s \in sum_operands[i], t \in sum_operands[j] : Len(s) # Len(t)
          ELSE /\ Head(ev_pending) = Throwing
               /\ ev_error[1].sdd = ev_x
               /\ {ev_error[1].top[1].lhs, ev_error[1].top[1].rhs} = {ev_x, one}
  /\ (ev_hom.type = "sum" /\ ev_pc = "for" /\ ev_pending = <<>>) =>
       ev_error = <<>>
  /\ SumDone => (ev_error = <<>> /\ ~Incompatible(sum_operands))

C21_Witness ==
  /\ ev_hom.type = "sum"
  /\ ev_pc = "evaluation_error"
  /\ ev_pending = <<>>
  /\ Len(sum_operands) = 3
  /\ ev_error[1].top[1].rhs = one
  /\ ev_error[1].top[1].lhs # ev_x

\* h(S) contains S for every SDD S.
Inflationary(h) == \A S \in SDDs : S \subseteq Eval(h, S)

\* No two consecutive iterates of h from S are equal: over the finitely many
\* SDDs the iterates are periodic after at most Cardinality(SDDs) of them.
NeverRepeats(h, S) ==
  \A k \in 0..Cardinality(SDDs) : Iterate(h, S, k + 1) # Iterate(h, S, k)

(***************************************************************************)
(* C22: the evaluation of Fixpoint(h) for an inflationary h, on any SDD    *)
(* over the finite universe of tuples, eventually returns; the loop has    *)
(* no bound of its own: a test that finds x1 # x2 always goes back to the  *)
(* body, and for an h whose iterates never repeat consecutively (flip)     *)
(* the evaluation never returns.                                           *)
(***************************************************************************)
C22_InflationaryTerminates ==
  /\ [](( /\ ev_hom.type = "fixpoint"
          /\ ev_pc = "call"
          /\ Inflationary(ev_hom.h)) => <>(ev_pc = "done"))
  /\ [][(ev_pc = "while" /\ x1 # x2) => ev_pc' = "do"]_vars
  /\ [](( /\ ev_hom.type = "fixpoint"
          /\ NeverRepeats(ev_hom.h, ev_x)) => ev_pc # "done")

C22_Witness ==
  /\ FixpointDone
  /\ Inflationary(ev_hom.h)
  /\ ev_first = <<>>
  /\ Cardinality(ev_x) = 1
  /\ ev_res = Tuples
  /\ ev_applied = 3

\* A step in which op() of the innermost active lookup is left by an
\* EvaluationError.
ThrowStep ==
  /\ Len(stack') < Len(stack)
  /\ exc'.raised \/ last'.status = "threw"

(***************************************************************************)
(* C23: a lookup whose evaluation raises EvaluationError inserts no entry  *)
(* for the failing operation: the step that leaves op() by the error       *)
(* changes no entry, and none of the operations that failed has an entry   *)
(* until one of them is looked up again and returns (so that lookup is a   *)
(* miss or a filtered evaluation, never a hit); the entries that nested    *)
(* lookups inserted before the error stay, with their results.             *)
(***************************************************************************)
C23_FailedLookupInsertsNothing ==
  /\ [](\A i \in DOMAIN raised_under : ~HasEntry(raised_under[i]))
  /\ [][ThrowStep =>
          /\ set_' = set_
          /\ ~HasEntry(stack[Len(stack)].op)]_vars
  /\ [][(calls' = calls + 1 /\ last'.kind = "hit" /\ last' # last) =>
          \A i \in DOMAIN raised_under : raised_under[i] # last'.op]_vars

C23_Witness ==
  /\ NoActiveLookup
  /\ last.status = "threw"
  /\ calls = 3
  /\ Len(last.steps) = 2
  /\ raised_under = <<last.op, last.steps[1]>>
  /\ \E e \in set_ :
       /\ e.operation \in SubOperations(last.op)
       /\ e.result = Result(e.operation)
       /\ set_ = {e}

(***************************************************************************)
(* C24: in every reachable state the cache holds at most one entry per     *)
(* operation, also when the evaluation of a missed operation looks other   *)
(* operations up and when a cleanup runs between the presence check and    *)
(* the insertion; the result stored in an entry does not change while the  *)
(* entry stays in the cache.                                               *)
(***************************************************************************)
C24_OneEntryPerOperation ==
  /\ [](\A e1, e2 \in set_ : e1.operation = e2.operation => e1 = e2)
  /\ [][\A e1 \in set_ : \A e2 \in set_' :
          e1.operation = e2.operation => e1.result = e2.result]_vars

\* The lookup that just returned missed, ran a cleanup after its presence
\* check, looked another operation up during its evaluation (a miss counted
\* in the round the cleanup opened), and then inserted its entry.
C24_Witness ==
  /\ NoActiveLookup
  /\ last.status = "returned"
  /\ last.kind = "miss"
  /\ HasEntry(last.op)
  /\ Len(succ) = 2
  /\ succ[1].misses = 1
  /\ succ[2].misses = 4
  /\ cache_size(set_) = 4

(***************************************************************************)
(* C28: Sum called with an empty range raises invalid_argument and makes   *)
(* no homomorphism; called with a non-empty range it does not raise it,    *)
(* neither itself nor in the Sum calls it makes when it regroups the       *)
(* Locals: what it returns is a homomorphism all through.                  *)
(***************************************************************************)
C28_EmptySumRaises ==
  SumReturned =>
    IF ctor_call.operands = <<>>
    THEN ctor_made = InvalidArgument
    ELSE /\ InvalidArgument \notin Subterms(ctor_made)
         /\ \A h \in Subterms(ctor_made) :
              h.type \in {"identity", "inductive", "constant", "local", "fixpoint", "sum"}

C28_Witness ==
  /\ SumReturned
  /\ ctor_call.operands = <<>>
  /\ ctor_made = InvalidArgument
  /\ ctor_made.type \notin {"identity", "inductive", "constant", "local", "fixpoint", "sum"}

(***************************************************************************)
(* order: a handle (order_ptr_) on a list of immutable nodes.  Nodes are   *)
(* shared between the orders that were copied or nested from one another.  *)
(***************************************************************************)
\* conf0: typedef unsigned char Variable
VariableBits == 8
VariableModulus == 2 ^ VariableBits
VariableValues == 0..(VariableModulus - 1)

MaxNodes == 3
NumIdentifiers == 2
MaxChain == 257

\* The identifiers that the user gives to the orders.
OrderIdentifiers == 1..NumIdentifiers

\* variable_traits<Variable>::first()
variable_traits_first == 0

\* variable_traits<Variable>::next(v), on the Variable type.
variable_traits_next(v) == (v + 1) % VariableModulus

\* node::node(var, id, nst, nxt)
node(var, id, nst, nxt) ==
  [variable |-> var, identifier |-> id, nested |-> nst, next |-> nxt]

\* order::empty()
empty(ptr) == ptr = 0

\* order::variable()
variable(heap, ptr) == heap[ptr].variable

\* An add that also writes its identifier into the node that was the head.
add_overwriting(heap, ptr, id, nested_ptr) ==
  LET var == IF empty(ptr) THEN variable_traits_first
             ELSE variable_traits_next(variable(heap, ptr))
      kept == IF empty(ptr) THEN heap
              ELSE [heap EXCEPT ![ptr] = [@ EXCEPT !.identifier = id]]
  IN Append(kept, node(var, id, nested_ptr, ptr))

\* order::add(id, nested_ptr): the nodes once std::make_shared<node> has made
\* the new head; its address is the last position.
add(heap, ptr, id, nested_ptr) ==
  LET var == IF empty(ptr) THEN variable_traits_first
             ELSE variable_traits_next(variable(heap, ptr))
  IN Append(heap, node(var, id, nested_ptr, ptr))

\* The helper of identifier_variable: <<>> for an empty optional, <<v>> for
\* the variable found; the node, then its nested order, then its next.
RECURSIVE helper(_, _, _)
helper(heap, ptr, id) ==
  IF ptr = 0 THEN <<>>
  ELSE IF heap[ptr].identifier = id THEN <<heap[ptr].variable>>
  ELSE LET res == IF heap[ptr].nested # 0
                  THEN helper(heap, heap[ptr].nested, id)
                  ELSE <<>>
       IN IF res # <<>> THEN res ELSE helper(heap, heap[ptr].next, id)

\* What the caller reads through the reference that identifier_variable
\* returns: the reference is to the value held by the local optional `res',
\* which is destroyed when the function returns.
dangling_reference(v) == VariableValues

\* o.add(id) and o.add(id, nested) for the order object h.
AddTo(h, id, nested_ptr) ==
  /\ nodes' = add(nodes, order_ptr_[h], id, nested_ptr)
  /\ order_ptr_' = [order_ptr_ EXCEPT ![h] = Len(nodes')]
  /\ looked_up' = NotLookedUp
  /\ UNCHANGED <<cacheVars, builderVars, evalVars>>

\* h.add(id)
OrderAdd(h, id) ==
  /\ Len(nodes) < MaxNodes
  /\ AddTo(h, id, 0)

\* h.add(id, g)
OrderAddNested(h, id, g) ==
  /\ Len(nodes) < MaxNodes
  /\ AddTo(h, id, order_ptr_[g])

\* h = g
OrderAssign(h, g) ==
  /\ h # g
  /\ order_ptr_' = [order_ptr_ EXCEPT ![h] = order_ptr_[g]]
  /\ looked_up' = NotLookedUp
  /\ UNCHANGED <<nodes, cacheVars, builderVars, evalVars>>

\* h.identifier_variable(id), and the caller reading what it returned.
IdentifierVariable(h, id) ==
  /\ looked_up = NotLookedUp
  /\ LET res == helper(nodes, order_ptr_[h], id)
     IN IF res # <<>>
        THEN \E v \in dangling_reference(res[1]) :
               looked_up' = [handle |-> h, id |-> id, status |-> "returned", variable |-> v]
        ELSE looked_up' = [handle |-> h, id |-> id, status |-> "Identifier not found.", variable |-> 0]
  /\ UNCHANGED <<nodes, order_ptr_, cacheVars, builderVars, evalVars>>

OrderInit ==
  /\ CacheIdle
  /\ BuilderIdle
  /\ EvalIdle
  /\ OrderIdle

\* The user makes orders, keeps a copy of the order o, and nests o or its
\* copy in the order parent.
OrderNext ==
  \/ \E h \in Handles, id \in OrderIdentifiers : OrderAdd(h, id)
  \/ \E g \in {"o", "copy"}, id \in OrderIdentifiers : OrderAddNested("parent", id, g)
  \/ OrderAssign("copy", "o")

OrderSpec == OrderInit /\ [][OrderNext]_vars

\* The user also asks the orders for the variables of identifiers.
OrderLookupNext ==
  \/ OrderNext
  \/ \E h \in Handles, id \in OrderIdentifiers : IdentifierVariable(h, id)

OrderLookupSpec == OrderInit /\ [][OrderLookupNext]_vars

(***************************************************************************)
(* One flat order that the user makes longer and longer, each identifier   *)
(* being new.                                                              *)
(***************************************************************************)
ChainAdd ==
  /\ Len(nodes) < MaxChain
  /\ AddTo("o", Len(nodes) + 1, 0)

OrderChainSpec == OrderInit /\ [][ChainAdd]_vars

\* The addresses reached from those of S by following f, which is `next'
\* taken once, then twice, then four times, and so on.
RECURSIVE Reached(_, _)
Reached(f, S) ==
  LET T == S \cup {f[i] : i \in S}
  IN IF T = S THEN S ELSE Reached([i \in DOMAIN f |-> f[f[i]]], T)

\* The addresses of the nodes from ptr along next.
Spine(heap, ptr) ==
  Reached([i \in 0..Len(heap) |-> IF i = 0 THEN 0 ELSE heap[i].next], {ptr}) \ {0}

\* What an order shows of itself: the identifier and the variable of each
\* node of its spine, with what its nested order shows.
RECURSIVE Observed(_, _)
Observed(heap, ptr) ==
  IF ptr = 0 THEN <<>>
  ELSE <<[identifier |-> heap[ptr].identifier,
          variable |-> heap[ptr].variable,
          nested |-> Observed(heap, heap[ptr].nested)]>>
         \o Observed(heap, heap[ptr].next)

\* The addresses of the nodes in the order of the search: a node, the nodes
\* of its nested order, the nodes after it.
RECURSIVE DepthFirst(_, _)
DepthFirst(heap, ptr) ==
  IF ptr = 0 THEN <<>>
  ELSE <<ptr>> \o DepthFirst(heap, heap[ptr].nested) \o DepthFirst(heap, heap[ptr].next)

(***************************************************************************)
(* C25: the head that add makes has the variable first() when the order    *)
(* was empty and next(variable of the former head) otherwise, so that the  *)
(* variables along the spine of any order are pairwise distinct and end    *)
(* with first(), however many identifiers were added, with the 8-bit       *)
(* Variable of conf0.                                                      *)
(***************************************************************************)
C25_SpineVariablesDistinct ==
  \A h \in Handles :
    LET spine == Spine(nodes, order_ptr_[h])
    IN /\ \A i \in spine :
            nodes[i].variable =
              IF nodes[i].next = 0 THEN variable_traits_first
              ELSE variable_traits_next(nodes[nodes[i].next].variable)
       /\ \A i, j \in spine :
            i # j => nodes[i].variable # nodes[j].variable

(***************************************************************************)
(* C26: orders are persistent.  add makes one new head node and rebinds    *)
(* the handle it is called on; no existing node changes, and every other   *)
(* handle (a copy taken before, a parent in which the order was nested)    *)
(* shows the same identifiers and variables as before.                     *)
(***************************************************************************)
C26_OrdersArePersistent ==
  [][/\ \A i \in DOMAIN nodes : i \in DOMAIN nodes' /\ nodes'[i] = nodes[i]
     /\ Len(nodes') > Len(nodes) =>
          \E h \in Handles :
            /\ Len(nodes') = Len(nodes) + 1
            /\ order_ptr_'[h] = Len(nodes')
            /\ nodes'[Len(nodes')].next = order_ptr_[h]
            /\ Tail(Observed(nodes', order_ptr_'[h])) = Observed(nodes, order_ptr_[h])
            /\ \A g \in Handles \ {h} :
                 /\ order_ptr_'[g] = order_ptr_[g]
                 /\ Observed(nodes', order_ptr_'[g]) = Observed(nodes, order_ptr_[g])]_vars

\* o was copied, nested in parent, and then added to: the copy and the
\* nested order of parent are the order that o was before.
C26_Witness ==
  /\ Len(nodes) = 3
  /\ order_ptr_["o"] = 3
  /\ order_ptr_["copy"] = 1
  /\ order_ptr_["parent"] = 2
  /\ nodes[3].next = order_ptr_["copy"]
  /\ nodes[2].nested = order_ptr_["copy"]
  /\ Observed(nodes, order_ptr_["copy"]) = Tail(Observed(nodes, order_ptr_["o"]))
  /\ Observed(nodes, order_ptr_["parent"])[1].nested = Observed(nodes, order_ptr_["copy"])

(***************************************************************************)
(* C27: identifier_variable(id) gives its caller the variable of the first *)
(* node, in depth-first order (node, nested, next), whose identifier is    *)
(* id; it raises "Identifier not found." exactly when no node carries id,  *)
(* as in an empty order.                                                   *)
(***************************************************************************)
C27_VariableOfFirstMatch ==
  looked_up.status # "none" =>
    LET search == DepthFirst(nodes, order_ptr_[looked_up.handle])
        found == {i \in DOMAIN search : nodes[search[i]].identifier = looked_up.id}
    IN IF found = {}
       THEN looked_up.status = "Identifier not found."
       ELSE /\ looked_up.status = "returned"
            /\ \E i \in found :
                 /\ \A j \in found : i <= j
                 /\ looked_up.variable = nodes[search[i]].variable

====
